---------------------------- MODULE Spec2Model ----------------------------
(***************************************************************************)
(* SshAccessManager (crates/ssh/ssh-aranya.rs): the administrative         *)
(* operations, the key materializer and the background sync task, as a     *)
(* state machine over the team graph, the key/host directories and the     *)
(* deployment sink.                                                        *)
(*                                                                         *)
(* The team graph client (aranya Client) is an external collaborator: it   *)
(* is modelled as a store of members, roles, defined labels and open label *)
(* grants, every call of which may also return an error.                   *)
(***************************************************************************)
EXTENDS Integers, Sequences, FiniteSets, TLC

\* ------------------------------------------------------------------ bounds
\* Administrative operations started in one behaviour.
MaxOps == 2
\* Ticks the sync tasks take in one behaviour.
MaxTicks == 2
\* Sync tasks that start_sync_daemon may spawn in one behaviour.
MaxLoops == 2
\* Longest hostname, in bytes, handed to hash_hostname on its own.
MaxNameLen == 7

\* --------------------------------------------------------------- constants
SSH_LABEL == 1000
SSH_ADMIN_ROLE == 1001
SSH_USER_ROLE == 1002
HostLabelBase == 2000
HostLabelRange == 1000
HashMultiplier == 31
\* u32 arithmetic is carried out on two 16-bit halves (TLC's integers are
\* 32-bit signed): a u32 value is <<high half, low half>>.
Half == 65536

\* UserId::new([0u8; 32]): the identity add_ssh_user extracts from the effects.
ZeroId == 0

\* Key bundles handed to add_ssh_user, and the identity the graph mints for
\* each (never the all-zero identity).
KeyBundles == {1, 2}
GraphIdOf(k) == k
Ids == {ZeroId} \cup {GraphIdOf(k) : k \in KeyBundles}

\* Hostnames as their UTF-8 bytes: "db1", "db2" and "jha".
Db1 == <<100, 98, 49>>
Db2 == <<100, 98, 50>>
Jha == <<106, 104, 97>>
Hosts == {Db1, Db2, Jha}
\* A whitespace-only line of hosts.txt (" ").
BlankLine == <<32>>

\* A file: absent, or present with its content.
NoFile == [exists |-> FALSE, data |-> <<>>]
File(d) == [exists |-> TRUE, data |-> d]
\* hosts.txt as the operator may have left it: absent, or a list of lines.
\* No method of the manager writes it.
HostsFiles == {NoFile, File(<<Db1, BlankLine, Jha>>)}

\* ------------------------------------------------------------ pure helpers
\* WrappingMulAdd losing the carry out of the low half.
WrappingMulAdd_DropsCarry(hash, byte) ==
    LET low == (hash[2] * HashMultiplier) + byte
    IN  <<(hash[1] * HashMultiplier) % Half, low % Half>>

\* hash.wrapping_mul(31).wrapping_add(byte as u32)
WrappingMulAdd(hash, byte) ==
    LET low == (hash[2] * HashMultiplier) + byte
    IN  <<((hash[1] * HashMultiplier) + (low \div Half)) % Half, low % Half>>

\* The loop over hostname.bytes().
RECURSIVE HashBytes(_, _)
HashBytes(hash, bytes) ==
    IF bytes = <<>> THEN hash
    ELSE HashBytes(WrappingMulAdd(hash, Head(bytes)), Tail(bytes))

\* hash % 1000 of a u32 held as two halves.
ModRange(hash) ==
    (((hash[1] % HostLabelRange) * (Half % HostLabelRange)) + hash[2]) % HostLabelRange

hash_hostname(hostname) == HostLabelBase + ModRange(HashBytes(<<0, 0>>, hostname))

\* line.trim().is_empty() for the lines of the model: only ASCII space is used.
TrimIsEmpty(line) == \A i \in 1..Len(line) : line[i] = 32


\* ------------------------------------------------------------------- state
VARIABLES
    \* the team graph, as the graph client holds it
    members,        \* identities that are team members
    roles,          \* <<identity, role>> pairs assigned
    labelOpen,      \* <<identity, label>> pairs assigned with ChanOp::Open
    definedLabels,  \* labels defined
    \* storage
    keysDir,        \* keys_path exists
    hostsDir,       \* hosts_path exists
    hostsFile,      \* hosts_path/hosts.txt: NoFile or its lines
    keyFile,        \* keys_path/<host>.keys: NoFile or the identities listed
    \* the deployment sink
    deployed,       \* per host: NoFile or the content last handed to the sink
    \* callers of the manager
    pc,             \* per caller: where the pending call stands
    op,             \* per caller: the pending (or last) call and its arguments
    res,            \* per caller: "none", "Ok" or "Err"
    ret,            \* per caller: user_id bound in add_ssh_user ({} before it is)
    lines,          \* per caller: lines of hosts.txt still to visit
    cur,            \* per caller: hostname update_host_keys is working on
    text,           \* per caller: authorized_keys text update_host_keys rendered
    \* history
    opDeployed,     \* per caller: hosts handed to the sink by the pending call
    basis,          \* per caller: authorized set of cur when text was rendered
    fileBasis,      \* per host: basis of the text now in its key file
    deployedBasis,  \* per host: basis of the text last handed to the sink
    prev,           \* the call completed before the pending one: its arguments,
                    \* result, hosts deployed and the key file it left for its host
    snap,           \* authorized set of the host, taken when the last grant began
    held,           \* what the principal of the last call held when the call began
    removed,        \* identities whose remove_ssh_user returned Ok
    halfRemoved,    \* identities whose remove_ssh_user failed at remove_member
    granted,        \* <<identity, host>>: label assigned by a grant, not yet revoked
    boundHost,      \* per host label: the first host successfully granted with it
    nOps,           \* calls started
    \* the tasks start_sync_daemon spawned
    task,           \* per task: "none", or where its loop stands
    effects,        \* per task: the effects its sync collected
    lastTick,       \* per task: how its finished ticks ended, oldest first
    ticks,          \* ticks taken by all tasks
    shutdown,       \* the owner of the process has asked the daemon to stop
    \* one run of hash_hostname
    hpc,            \* "idle", "loop" or "done"
    hname,          \* the hostname handed in
    hrest,          \* bytes of the hostname still to consume
    hacc,           \* hash: u32 as <<high half, low half>>
    hlabel          \* the value returned (0 before the return)

graphVars == <<members, roles, labelOpen, definedLabels>>
fsVars == <<keysDir, hostsDir, hostsFile, keyFile, fileBasis>>
ctlVars == <<op, prev, snap, held, nOps>>
refVars == <<ret, lines, cur, text, opDeployed, basis>>
sinkVars == <<deployed, deployedBasis>>
histVars == <<removed, halfRemoved, granted, boundHost>>
syncVars == <<task, effects, lastTick, ticks>>
hashVars == <<hpc, hname, hrest, hacc, hlabel>>
envVars == <<shutdown, hashVars>>
vars == <<members, roles, labelOpen, definedLabels, keysDir, hostsDir, hostsFile,
          keyFile, deployed, pc, op, res, ret, lines, cur, text, opDeployed, basis,
          fileBasis, deployedBasis, prev, snap, held, removed, halfRemoved, granted,
          boundHost, nOps, task, effects, lastTick, ticks, shutdown, hpc, hname,
          hrest, hacc, hlabel>>

Callers == {1, 2}
Tasks == 1..MaxLoops
NoHost == <<>>
HostLabels == {hash_hostname(h) : h \in Hosts}
NoOp == [name |-> "none", uid |-> ZeroId, host |-> NoHost, keys |-> 0, admin |-> FALSE]
NoPrev == [op |-> NoOp, res |-> "none", ret |-> {}, deployed |-> {}, file |-> NoFile]
SshRoles == {SSH_ADMIN_ROLE, SSH_USER_ROLE}

\* The derived AccessGrant view of a host: current team members holding the
\* host's label open.
Authorized(h) == {u \in members : <<u, hash_hostname(h)>> \in labelOpen}

\* The team graph handed to SshAccessManager::new: a team without members, or
\* a team in which the member minted for key bundle 1 is an SSH admin holding
\* the transport label and db1's label (the graph is replicated: other
\* devices act on it too).
TeamsAtStart ==
    { [members |-> {}, roles |-> {}, labelOpen |-> {}, definedLabels |-> {}],
      [members |-> {GraphIdOf(1)},
       roles |-> {<<GraphIdOf(1), SSH_ADMIN_ROLE>>},
       labelOpen |-> {<<GraphIdOf(1), SSH_LABEL>>, <<GraphIdOf(1), hash_hostname(Db1)>>},
       definedLabels |-> {SSH_LABEL, hash_hostname(Db1)}] }

\* What a principal holds in the graph, and whether it is authorized for a host.
Holdings(u, h) ==
    [member |-> u \in members,
     label |-> <<u, SSH_LABEL>> \in labelOpen,
     roles |-> {r \in SshRoles : <<u, r>> \in roles},
     access |-> u \in Authorized(h)]

\* Storage is either untouched (no directory, no hosts.txt) or prepared by
\* the operator (both directories and a hosts.txt).
InitManager ==
    /\ \E t \in TeamsAtStart :
          /\ members = t.members
          /\ roles = t.roles
          /\ labelOpen = t.labelOpen
          /\ definedLabels = t.definedLabels
    /\ hostsFile \in HostsFiles
    /\ hostsDir = hostsFile.exists
    /\ keysDir = hostsFile.exists
    /\ keyFile = [h \in Hosts |-> NoFile]
    /\ deployed = [h \in Hosts |-> NoFile]
    /\ pc = [c \in Callers |-> "idle"]
    /\ op = [c \in Callers |-> NoOp]
    /\ res = [c \in Callers |-> "none"]
    /\ ret = [c \in Callers |-> {}]
    /\ lines = [c \in Callers |-> <<>>]
    /\ cur = [c \in Callers |-> NoHost]
    /\ text = [c \in Callers |-> <<>>]
    /\ basis = [c \in Callers |-> {}]
    /\ fileBasis = [h \in Hosts |-> {}]
    /\ deployedBasis = [h \in Hosts |-> {}]
    /\ opDeployed = [c \in Callers |-> {}]
    /\ prev = NoPrev
    /\ snap = {}
    /\ held = Holdings(ZeroId, NoHost)
    /\ removed = {} /\ halfRemoved = {} /\ granted = {}
    /\ boundHost = [l \in HostLabels |-> NoHost]
    /\ nOps = 0
    /\ task = [t \in Tasks |-> "none"]
    /\ effects = [t \in Tasks |-> <<>>]
    /\ lastTick = [t \in Tasks |-> <<>>]
    /\ ticks = 0
    /\ shutdown = FALSE

Init ==
    /\ InitManager
    /\ hpc = "idle"
    /\ hname = <<>>
    /\ hrest = <<>>
    /\ hacc = <<0, 0>>
    /\ hlabel = 0

\* ------------------------------------------------------- call and return
\* A caller invokes a method of the manager: the call is entered at `first`.
Begin(c, o, first) ==
    /\ nOps' = nOps + 1
    /\ pc' = [pc EXCEPT ![c] = first]
    /\ op' = [op EXCEPT ![c] = o]
    /\ res' = [res EXCEPT ![c] = "none"]
    /\ ret' = [ret EXCEPT ![c] = {}]
    /\ lines' = [lines EXCEPT ![c] = <<>>]
    /\ cur' = [cur EXCEPT ![c] = NoHost]
    /\ text' = [text EXCEPT ![c] = <<>>]
    /\ basis' = [basis EXCEPT ![c] = {}]
    /\ opDeployed' = [opDeployed EXCEPT ![c] = {}]
    /\ prev' = IF pc[c] = "done"
               THEN [op |-> op[c], res |-> res[c], ret |-> ret[c],
                     deployed |-> opDeployed[c],
                     file |-> IF op[c].host \in Hosts THEN keyFile[op[c].host]
                              ELSE NoFile]
               ELSE prev
    /\ snap' = IF o.name = "grant_host_access" THEN Authorized(o.host) ELSE snap
    /\ held' = Holdings(o.uid, o.host)
    /\ UNCHANGED <<graphVars, fsVars, sinkVars, histVars, syncVars, envVars>>

Goto(c, l) ==
    /\ pc' = [pc EXCEPT ![c] = l]
    /\ UNCHANGED <<res, ctlVars, syncVars, envVars>>

Return(c, r) ==
    /\ pc' = [pc EXCEPT ![c] = "done"]
    /\ res' = [res EXCEPT ![c] = r]
    /\ UNCHANGED <<ctlVars, syncVars, envVars>>

\* A fallible call (a graph action, a file operation) returns Err and `?`
\* propagates it to the caller.
Fails(c) == Return(c, "Err")


\* ------------------------------------------------------------ initialize
CallInitialize(c) ==
    /\ pc[c] \in {"idle", "done"}
    /\ nOps < MaxOps
    /\ Begin(c, [NoOp EXCEPT !.name = "initialize"], "init_define")

\* define_label(SSH_LABEL).await?
InitDefineLabel(c) ==
    /\ pc[c] = "init_define"
    /\ \/ /\ definedLabels' = definedLabels \cup {SSH_LABEL}
          /\ Goto(c, "init_keys_dir")
       \/ /\ Fails(c)
          /\ UNCHANGED definedLabels
    /\ UNCHANGED <<members, roles, labelOpen, fsVars, sinkVars, refVars, histVars>>

\* fs::create_dir_all(&self.keys_path).await?
InitKeysDir(c) ==
    /\ pc[c] = "init_keys_dir"
    /\ \/ /\ keysDir' = TRUE
          /\ Goto(c, "init_hosts_dir")
       \/ /\ Fails(c)
          /\ UNCHANGED keysDir
    /\ UNCHANGED <<graphVars, hostsDir, hostsFile, keyFile, fileBasis, sinkVars, refVars, histVars>>

\* fs::create_dir_all(&self.hosts_path).await?; Ok(())
InitHostsDir(c) ==
    /\ pc[c] = "init_hosts_dir"
    /\ \/ /\ hostsDir' = TRUE
          /\ Return(c, "Ok")
       \/ /\ Fails(c)
          /\ UNCHANGED hostsDir
    /\ UNCHANGED <<graphVars, keysDir, hostsFile, keyFile, fileBasis, sinkVars, refVars, histVars>>

\* ---------------------------------------------------------- add_ssh_user
CallAddUser(c) ==
    /\ pc[c] \in {"idle", "done"}
    /\ nOps < MaxOps
    /\ \E k \in KeyBundles, a \in BOOLEAN :
        Begin(c, [NoOp EXCEPT !.name = "add_ssh_user", !.keys = k, !.admin = a],
              "add_member")

\* The identity bound to user_id when the effects hold a "member_added".
ExtractUserId(k) == ZeroId

\* AddMember going on to the role assignment when no effect is named
\* "member_added".
AddMember_GoOnWithoutIdentity(c) ==
    /\ pc[c] = "add_member"
    /\ \/ /\ members' = members \cup {GraphIdOf(op[c].keys)}
          /\ removed' = removed \ {GraphIdOf(op[c].keys)}
          /\ ret' = [ret EXCEPT ![c] = {ExtractUserId(op[c].keys)}]
          /\ Goto(c, "add_role")
       \/ /\ members' = members \cup {GraphIdOf(op[c].keys)}
          /\ removed' = removed \ {GraphIdOf(op[c].keys)}
          /\ Goto(c, "add_role")
          /\ UNCHANGED ret
       \/ /\ Fails(c)
          /\ UNCHANGED <<members, removed, ret>>
    /\ UNCHANGED <<roles, labelOpen, definedLabels, fsVars, sinkVars, lines, cur,
                   text, opDeployed, basis, halfRemoved, granted, boundHost>>

\* add_member(user_keys).await?, then the find_map over the effects.
AddMember(c) ==
    /\ pc[c] = "add_member"
    /\ \/ \* the member is added and the effects name it
          /\ members' = members \cup {GraphIdOf(op[c].keys)}
          /\ removed' = removed \ {GraphIdOf(op[c].keys)}
          /\ ret' = [ret EXCEPT ![c] = {ExtractUserId(op[c].keys)}]
          /\ Goto(c, "add_role")
       \/ \* the member is added and no effect is named "member_added"
          /\ members' = members \cup {GraphIdOf(op[c].keys)}
          /\ removed' = removed \ {GraphIdOf(op[c].keys)}
          /\ Fails(c)
          /\ UNCHANGED ret
       \/ \* add_member fails
          /\ Fails(c)
          /\ UNCHANGED <<members, removed, ret>>
    /\ UNCHANGED <<roles, labelOpen, definedLabels, fsVars, sinkVars, lines, cur,
                   text, opDeployed, basis, halfRemoved, granted, boundHost>>

RoleFor(is_admin) == IF is_admin THEN SSH_ADMIN_ROLE ELSE SSH_USER_ROLE

\* assign_role(user_id, role).await?
AddAssignRole(c) ==
    /\ pc[c] = "add_role"
    /\ \/ /\ roles' = roles \cup {<<u, RoleFor(op[c].admin)>> : u \in ret[c]}
          /\ halfRemoved' = halfRemoved \ ret[c]
          /\ Goto(c, "add_label")
       \/ /\ Fails(c)
          /\ UNCHANGED <<roles, halfRemoved>>
    /\ UNCHANGED <<members, labelOpen, definedLabels, fsVars, sinkVars, refVars,
                   removed, granted, boundHost>>

\* AddAssignLabel taking the member out of the team again when it fails.
AddAssignLabel_RollBack(c) ==
    /\ pc[c] = "add_label"
    /\ \/ /\ labelOpen' = labelOpen \cup {<<u, SSH_LABEL>> : u \in ret[c]}
          /\ halfRemoved' = halfRemoved \ ret[c]
          /\ Goto(c, "uak_read")
          /\ UNCHANGED members
       \/ /\ Fails(c)
          /\ members' = members \ {GraphIdOf(op[c].keys)}
          /\ UNCHANGED <<labelOpen, halfRemoved>>
    /\ UNCHANGED <<roles, definedLabels, fsVars, sinkVars, refVars,
                   removed, granted, boundHost>>

\* assign_label(user_id, SSH_LABEL, ChanOp::Open).await?
AddAssignLabel(c) ==
    /\ pc[c] = "add_label"
    /\ \/ /\ labelOpen' = labelOpen \cup {<<u, SSH_LABEL>> : u \in ret[c]}
          /\ halfRemoved' = halfRemoved \ ret[c]
          /\ Goto(c, "uak_read")
       \/ /\ Fails(c)
          /\ UNCHANGED <<labelOpen, halfRemoved>>
    /\ UNCHANGED <<members, roles, definedLabels, fsVars, sinkVars, refVars,
                   removed, granted, boundHost>>

\* ------------------------------------------------------- remove_ssh_user
CallRemoveUser(c) ==
    /\ pc[c] \in {"idle", "done"}
    /\ nOps < MaxOps
    /\ \E u \in Ids :
        Begin(c, [NoOp EXCEPT !.name = "remove_ssh_user", !.uid = u], "rm_label")

\* revoke_label(user_id, SSH_LABEL).await?
RemoveRevokeLabel(c) ==
    /\ pc[c] = "rm_label"
    /\ \/ /\ labelOpen' = labelOpen \ {<<op[c].uid, SSH_LABEL>>}
          /\ Goto(c, "rm_user_role")
       \/ /\ Fails(c)
          /\ UNCHANGED labelOpen
    /\ UNCHANGED <<members, roles, definedLabels, fsVars, sinkVars, refVars, histVars>>

\* revoke_role(user_id, SSH_USER_ROLE).await?
RemoveRevokeUserRole(c) ==
    /\ pc[c] = "rm_user_role"
    /\ \/ /\ roles' = roles \ {<<op[c].uid, SSH_USER_ROLE>>}
          /\ Goto(c, "rm_admin_role")
       \/ /\ Fails(c)
          /\ UNCHANGED roles
    /\ UNCHANGED <<members, labelOpen, definedLabels, fsVars, sinkVars, refVars, histVars>>

\* RemoveRevokeAdminRole going on to remove_member without revoking the role.
RemoveRevokeAdminRole_Skip(c) ==
    /\ pc[c] = "rm_admin_role"
    /\ \/ /\ roles' = roles
          /\ Goto(c, "rm_member")
       \/ /\ Fails(c)
          /\ UNCHANGED roles
    /\ UNCHANGED <<members, labelOpen, definedLabels, fsVars, sinkVars, refVars, histVars>>

\* revoke_role(user_id, SSH_ADMIN_ROLE).await?
RemoveRevokeAdminRole(c) ==
    /\ pc[c] = "rm_admin_role"
    /\ \/ /\ roles' = roles \ {<<op[c].uid, SSH_ADMIN_ROLE>>}
          /\ Goto(c, "rm_member")
       \/ /\ Fails(c)
          /\ UNCHANGED roles
    /\ UNCHANGED <<members, labelOpen, definedLabels, fsVars, sinkVars, refVars, histVars>>

\* remove_member(user_id).await?
RemoveMember(c) ==
    /\ pc[c] = "rm_member"
    /\ \/ /\ members' = members \ {op[c].uid}
          /\ halfRemoved' = halfRemoved \ {op[c].uid}
          /\ Goto(c, "uak_read")
       \/ /\ Fails(c)
          /\ halfRemoved' = halfRemoved \cup {op[c].uid}
          /\ UNCHANGED members
    /\ UNCHANGED <<roles, labelOpen, definedLabels, fsVars, sinkVars, refVars,
                   removed, granted, boundHost>>


\* ----------------------------------------------------- grant_host_access
CallGrantHostAccess(c) ==
    /\ pc[c] \in {"idle", "done"}
    /\ nOps < MaxOps
    /\ \E u \in Ids, h \in Hosts :
        Begin(c, [NoOp EXCEPT !.name = "grant_host_access", !.uid = u, !.host = h],
              "gr_define")

\* define_label(Label::new(self.hash_hostname(hostname))).await?
GrantDefineLabel(c) ==
    /\ pc[c] = "gr_define"
    /\ \/ /\ definedLabels' = definedLabels \cup {hash_hostname(op[c].host)}
          /\ Goto(c, "gr_assign")
       \/ /\ Fails(c)
          /\ UNCHANGED definedLabels
    /\ UNCHANGED <<members, roles, labelOpen, fsVars, sinkVars, refVars, histVars>>

\* GrantAssignLabel refreshing "jha" whatever the hostname.
GrantAssignLabel_RefreshesAnother(c) ==
    /\ pc[c] = "gr_assign"
    /\ \/ /\ labelOpen' = labelOpen \cup {<<op[c].uid, hash_hostname(op[c].host)>>}
          /\ granted' = granted \cup {<<op[c].uid, op[c].host>>}
          /\ cur' = [cur EXCEPT ![c] = Jha]
          /\ Goto(c, "uhk_render")
       \/ /\ Fails(c)
          /\ UNCHANGED <<labelOpen, granted, cur>>
    /\ UNCHANGED <<members, roles, definedLabels, fsVars, sinkVars, ret, lines, text,
                   opDeployed, basis, removed, halfRemoved, boundHost>>

\* assign_label(user_id, host_label, ChanOp::Open).await?, then the call of
\* update_host_keys(hostname).
GrantAssignLabel(c) ==
    /\ pc[c] = "gr_assign"
    /\ \/ /\ labelOpen' = labelOpen \cup {<<op[c].uid, hash_hostname(op[c].host)>>}
          /\ granted' = granted \cup {<<op[c].uid, op[c].host>>}
          /\ cur' = [cur EXCEPT ![c] = op[c].host]
          /\ Goto(c, "uhk_render")
       \/ /\ Fails(c)
          /\ UNCHANGED <<labelOpen, granted, cur>>
    /\ UNCHANGED <<members, roles, definedLabels, fsVars, sinkVars, ret, lines, text,
                   opDeployed, basis, removed, halfRemoved, boundHost>>

\* ---------------------------------------------------- revoke_host_access
CallRevokeHostAccess(c) ==
    /\ pc[c] \in {"idle", "done"}
    /\ nOps < MaxOps
    /\ \E u \in Ids, h \in Hosts :
        Begin(c, [NoOp EXCEPT !.name = "revoke_host_access", !.uid = u, !.host = h],
              "rv_revoke")

\* RevokeLabel revoking the transport label in place of the host's label.
RevokeLabel_TransportLabel(c) ==
    /\ pc[c] = "rv_revoke"
    /\ \/ /\ labelOpen' = labelOpen \ {<<op[c].uid, SSH_LABEL>>}
          /\ granted' = granted
          /\ cur' = [cur EXCEPT ![c] = op[c].host]
          /\ Goto(c, "uhk_render")
       \/ /\ Fails(c)
          /\ UNCHANGED <<labelOpen, granted, cur>>
    /\ UNCHANGED <<members, roles, definedLabels, fsVars, sinkVars, ret, lines, text,
                   opDeployed, basis, removed, halfRemoved, boundHost>>

\* revoke_label(user_id, Label::new(self.hash_hostname(hostname))).await?, then
\* the call of update_host_keys(hostname).
RevokeLabel(c) ==
    /\ pc[c] = "rv_revoke"
    /\ \/ /\ labelOpen' = labelOpen \ {<<op[c].uid, hash_hostname(op[c].host)>>}
          /\ granted' = {g \in granted :
                            ~(g[1] = op[c].uid
                              /\ hash_hostname(g[2]) = hash_hostname(op[c].host))}
          /\ cur' = [cur EXCEPT ![c] = op[c].host]
          /\ Goto(c, "uhk_render")
       \/ /\ Fails(c)
          /\ UNCHANGED <<labelOpen, granted, cur>>
    /\ UNCHANGED <<members, roles, definedLabels, fsVars, sinkVars, ret, lines, text,
                   opDeployed, basis, removed, halfRemoved, boundHost>>

\* ------------------------------------------------ update_authorized_keys
\* fs::read_to_string(hosts_path.join("hosts.txt")).await?
ReadHostList(c) ==
    /\ pc[c] = "uak_read"
    /\ \/ /\ hostsFile.exists
          /\ lines' = [lines EXCEPT ![c] = hostsFile.data]
          /\ Goto(c, "uak_loop")
       \/ \* no hosts.txt: the read fails
          /\ ~hostsFile.exists
          /\ Return(c, "Err")
          /\ UNCHANGED lines
       \/ /\ hostsFile.exists
          /\ Fails(c)
          /\ UNCHANGED lines
    /\ UNCHANGED <<graphVars, fsVars, sinkVars, ret, cur, text, opDeployed, basis,
                   histVars>>

\* for host in hosts.lines() { if !host.trim().is_empty() { ... } }  Ok(())
NextHostLine(c) ==
    /\ pc[c] = "uak_loop"
    /\ \/ /\ lines[c] = <<>>
          /\ Return(c, "Ok")
          /\ removed' = IF op[c].name = "remove_ssh_user"
                         THEN removed \cup {op[c].uid} ELSE removed
          /\ UNCHANGED <<lines, cur>>
       \/ /\ lines[c] # <<>>
          /\ TrimIsEmpty(Head(lines[c]))
          /\ lines' = [lines EXCEPT ![c] = Tail(lines[c])]
          /\ Goto(c, "uak_loop")
          /\ UNCHANGED <<cur, removed>>
       \/ /\ lines[c] # <<>>
          /\ ~TrimIsEmpty(Head(lines[c]))
          /\ lines' = [lines EXCEPT ![c] = Tail(lines[c])]
          /\ cur' = [cur EXCEPT ![c] = Head(lines[c])]
          /\ Goto(c, "uhk_render")
          /\ UNCHANGED removed
    /\ UNCHANGED <<graphVars, fsVars, sinkVars, ret, text, opDeployed, basis,
                   halfRemoved, granted, boundHost>>

\* ------------------------------------------------------ update_host_keys
\* RenderAuthorizedKeys with content that follows the order of the calls.
RenderAuthorizedKeys_ByCallOrder(hostname) == <<nOps>>

\* The text update_host_keys writes: the header comment and no key line.
\* A key file is modelled by the sequence of identities it lists.
RenderAuthorizedKeys(hostname) == <<>>

\* let authorized_keys = format!(...); let keys_file = ...; the write is issued.
RenderHostKeys(c) ==
    /\ pc[c] = "uhk_render"
    /\ text' = [text EXCEPT ![c] = RenderAuthorizedKeys(cur[c])]
    /\ basis' = [basis EXCEPT ![c] = Authorized(cur[c])]
    /\ Goto(c, "uhk_write")
    /\ UNCHANGED <<graphVars, fsVars, sinkVars, ret, lines, cur, opDeployed, histVars>>

\* WriteHostKeys dropping the error of the write and going on to deploy.
WriteHostKeys_IgnoreError(c) ==
    /\ pc[c] = "uhk_write"
    /\ \/ /\ keysDir
          /\ keyFile' = [keyFile EXCEPT ![cur[c]] = File(text[c])]
          /\ fileBasis' = [fileBasis EXCEPT ![cur[c]] = basis[c]]
          /\ Goto(c, "uhk_deploy")
       \/ /\ Goto(c, "uhk_deploy")
          /\ UNCHANGED <<keyFile, fileBasis>>
    /\ UNCHANGED <<graphVars, keysDir, hostsDir, hostsFile, sinkVars, refVars, histVars>>

\* fs::write(&keys_file, authorized_keys).await?
WriteHostKeys(c) ==
    /\ pc[c] = "uhk_write"
    /\ \/ /\ keysDir
          /\ keyFile' = [keyFile EXCEPT ![cur[c]] = File(text[c])]
          /\ fileBasis' = [fileBasis EXCEPT ![cur[c]] = basis[c]]
          /\ Goto(c, "uhk_deploy")
       \/ \* keys_path does not exist: the write fails
          /\ ~keysDir
          /\ Return(c, "Err")
          /\ UNCHANGED <<keyFile, fileBasis>>
       \/ /\ keysDir
          /\ Fails(c)
          /\ UNCHANGED <<keyFile, fileBasis>>
    /\ UNCHANGED <<graphVars, keysDir, hostsDir, hostsFile, sinkVars, refVars, histVars>>

\* deploy_keys_to_host(hostname, &keys_file): the file at keys_file goes to the
\* host; always Ok(()).
deploy_keys_to_host(hostname) ==
    /\ deployed' = [deployed EXCEPT ![hostname] = keyFile[hostname]]
    /\ deployedBasis' = [deployedBasis EXCEPT ![hostname] = fileBasis[hostname]]

\* self.deploy_keys_to_host(hostname, &keys_file).await?; Ok(()), and the
\* return into the caller of update_host_keys.
DeployHostKeys(c) ==
    /\ pc[c] = "uhk_deploy"
    /\ deploy_keys_to_host(cur[c])
    /\ opDeployed' = [opDeployed EXCEPT ![c] = @ \cup {cur[c]}]
    /\ IF op[c].name \in {"grant_host_access", "revoke_host_access"}
       THEN /\ Return(c, "Ok")
            /\ boundHost' =
                 IF op[c].name = "grant_host_access"
                    /\ boundHost[hash_hostname(op[c].host)] = NoHost
                 THEN [boundHost EXCEPT ![hash_hostname(op[c].host)] = op[c].host]
                 ELSE boundHost
       ELSE /\ Goto(c, "uak_loop")
            /\ UNCHANGED boundHost
    /\ UNCHANGED <<graphVars, fsVars, ret, lines, cur, text, basis, removed,
                   halfRemoved, granted>>

\* ------------------------------------------------------------- the calls
Call(c) ==
    \/ CallInitialize(c)
    \/ CallAddUser(c)
    \/ CallRemoveUser(c)
    \/ CallGrantHostAccess(c)
    \/ CallRevokeHostAccess(c)

Step(c) ==
    \/ InitDefineLabel(c) \/ InitKeysDir(c) \/ InitHostsDir(c)
    \/ AddMember(c) \/ AddAssignRole(c) \/ AddAssignLabel(c)
    \/ RemoveRevokeLabel(c) \/ RemoveRevokeUserRole(c) \/ RemoveRevokeAdminRole(c)
    \/ RemoveMember(c)
    \/ GrantDefineLabel(c) \/ GrantAssignLabel(c)
    \/ RevokeLabel(c)
    \/ ReadHostList(c) \/ NextHostLine(c)
    \/ RenderHostKeys(c) \/ WriteHostKeys(c) \/ DeployHostKeys(c)

\* One caller at a time: each call runs to its return before the next begins.
Next == Call(1) \/ Step(1)

Spec == Init /\ [][Next]_vars

\* ----------------------------------------------------- concurrent callers
\* Two callers, each making one grant or revoke call; their awaits interleave.
ConcGrant(c) ==
    /\ pc[c] = "idle"
    /\ CallGrantHostAccess(c)

ConcRevoke(c) ==
    /\ pc[c] = "idle"
    /\ CallRevokeHostAccess(c)

ConcStep(c) ==
    \/ GrantDefineLabel(c) \/ GrantAssignLabel(c)
    \/ RevokeLabel(c)
    \/ RenderHostKeys(c) \/ WriteHostKeys(c) \/ DeployHostKeys(c)

NextConc == \E c \in Callers : ConcGrant(c) \/ ConcRevoke(c) \/ ConcStep(c)

SpecConc == Init /\ [][NextConc]_vars

\* ------------------------------------------------------ start_sync_daemon
\* Effects a sync with the peer can bring in, as the commands they record.
RemoteCommands ==
    { [kind |-> "member_added", id |-> GraphIdOf(2), label |-> 0],
      [kind |-> "label_assigned", id |-> GraphIdOf(1), label |-> hash_hostname(Db2)],
      [kind |-> "role_revoked", id |-> GraphIdOf(1), label |-> 0] }
RemoteBatches == {<<>>} \cup {<<e>> : e \in RemoteCommands}

\* The graph after the peer's commands are merged.
MergedMembers(batch) ==
    members \cup {batch[i].id : i \in {j \in 1..Len(batch) : batch[j].kind = "member_added"}}
MergedLabels(batch) ==
    labelOpen \cup {<<batch[i].id, batch[i].label>> :
                      i \in {j \in 1..Len(batch) : batch[j].kind = "label_assigned"}}
MergedRoles(batch) ==
    roles \ {<<batch[i].id, r>> :
                i \in {j \in 1..Len(batch) : batch[j].kind = "role_revoked"},
                r \in SshRoles}

CallStartSyncDaemon(c) ==
    /\ pc[c] \in {"idle", "done"}
    /\ nOps < MaxOps
    /\ \E t \in Tasks : task[t] = "none"
    /\ Begin(c, [NoOp EXCEPT !.name = "start_sync_daemon"], "spawn")

\* SpawnSyncTask returning to the caller what the first sync returns.
SpawnSyncTask_AwaitFirstSync(c) ==
    /\ pc[c] = "spawn"
    /\ LET t == CHOOSE x \in Tasks : task[x] = "none" /\ \A y \in Tasks : task[y] = "none" => x <= y
       IN  task' = [task EXCEPT ![t] = "tick"]
    /\ pc' = [pc EXCEPT ![c] = "done"]
    /\ res' \in {[res EXCEPT ![c] = r] : r \in {"Ok", "Err"}}
    /\ UNCHANGED <<graphVars, fsVars, sinkVars, refVars, histVars, ctlVars, effects,
                   lastTick, ticks, envVars>>

\* tokio::spawn(async move { ... }); Ok(())
SpawnSyncTask(c) ==
    /\ pc[c] = "spawn"
    /\ LET t == CHOOSE x \in Tasks : task[x] = "none" /\ \A y \in Tasks : task[y] = "none" => x <= y
       IN  task' = [task EXCEPT ![t] = "tick"]
    /\ pc' = [pc EXCEPT ![c] = "done"]
    /\ res' = [res EXCEPT ![c] = "Ok"]
    /\ UNCHANGED <<graphVars, fsVars, sinkVars, refVars, histVars, ctlVars, effects,
                   lastTick, ticks, envVars>>

\* interval.tick().await, then the call of sync_and_update_keys.
Tick(t) ==
    /\ task[t] = "tick"
    /\ ticks < MaxTicks
    /\ ticks' = ticks + 1
    /\ task' = [task EXCEPT ![t] = "sync"]
    /\ effects' = [effects EXCEPT ![t] = <<>>]
    /\ UNCHANGED <<graphVars, fsVars, sinkVars, pc, res, refVars, histVars, ctlVars,
                   lastTick, envVars>>

\* SyncPeer trying again at once when the sync fails.
SyncPeer_RetryOnError(t) ==
    /\ task[t] = "sync"
    /\ \/ \E batch \in RemoteBatches :
             /\ members' = MergedMembers(batch)
             /\ labelOpen' = MergedLabels(batch)
             /\ roles' = MergedRoles(batch)
             /\ effects' = [effects EXCEPT ![t] = batch]
             /\ task' = [task EXCEPT ![t] = "effects"]
             /\ UNCHANGED lastTick
       \/ /\ lastTick' = [lastTick EXCEPT ![t] = Append(@, "err")]
          /\ UNCHANGED <<members, labelOpen, roles, effects, task>>
    /\ UNCHANGED <<definedLabels, fsVars, sinkVars, pc, res, refVars, histVars, ctlVars,
                   ticks, envVars>>

\* SyncPeer with a loop that breaks on the first Err.
SyncPeer_StopOnError(t) ==
    /\ task[t] = "sync"
    /\ \/ \E batch \in RemoteBatches :
             /\ members' = MergedMembers(batch)
             /\ labelOpen' = MergedLabels(batch)
             /\ roles' = MergedRoles(batch)
             /\ effects' = [effects EXCEPT ![t] = batch]
             /\ task' = [task EXCEPT ![t] = "effects"]
             /\ UNCHANGED lastTick
       \/ /\ task' = [task EXCEPT ![t] = "stopped"]
          /\ lastTick' = [lastTick EXCEPT ![t] = Append(@, "err")]
          /\ UNCHANGED <<members, labelOpen, roles, effects>>
    /\ UNCHANGED <<definedLabels, fsVars, sinkVars, pc, res, refVars, histVars, ctlVars,
                   ticks, envVars>>

\* client.sync_peer(*graph_id, &mut sink, &addr).await?; sink.collect()?
\* An Err returns to the loop, which prints it and awaits the next tick.
SyncPeer(t) ==
    /\ task[t] = "sync"
    /\ \/ \E batch \in RemoteBatches :
             /\ members' = MergedMembers(batch)
             /\ labelOpen' = MergedLabels(batch)
             /\ roles' = MergedRoles(batch)
             /\ effects' = [effects EXCEPT ![t] = batch]
             /\ task' = [task EXCEPT ![t] = "effects"]
             /\ UNCHANGED lastTick
       \/ /\ task' = [task EXCEPT ![t] = "tick"]
          /\ lastTick' = [lastTick EXCEPT ![t] = Append(@, "err")]
          /\ UNCHANGED <<members, labelOpen, roles, effects>>
    /\ UNCHANGED <<definedLabels, fsVars, sinkVars, pc, res, refVars, histVars, ctlVars,
                   ticks, envVars>>

\* ProcessEffects refreshing every host whether or not effects came in.
ProcessEffects_AlwaysRefresh(t) ==
    /\ keyFile' = [h \in Hosts |-> File(RenderAuthorizedKeys(h))]
    /\ fileBasis' = [h \in Hosts |-> Authorized(h)]
    /\ deployed' = [h \in Hosts |-> File(RenderAuthorizedKeys(h))]
    /\ deployedBasis' = [h \in Hosts |-> Authorized(h)]
    /\ UNCHANGED <<keysDir, hostsDir, hostsFile>>

\* if !effects.is_empty() { println!(...) }: nothing is written or deployed.
ProcessEffects(t) ==
    UNCHANGED <<fsVars, sinkVars>>

\* The tail of sync_and_update_keys: the effects are looked at, Ok(()).
FinishSync(t) ==
    /\ task[t] = "effects"
    /\ ProcessEffects(t)
    /\ task' = [task EXCEPT ![t] = "tick"]
    /\ lastTick' = [lastTick EXCEPT
                      ![t] = Append(@, IF effects[t] = <<>> THEN "empty" ELSE "effects")]
    /\ UNCHANGED <<graphVars, pc, res, refVars, histVars, ctlVars, effects, ticks,
                   envVars>>

\* The owner of the process asks the daemon to stop. The manager has no
\* method for it and the JoinHandle of the task is dropped: the request is
\* an event of the environment that nothing in the task reads.
RequestShutdown ==
    /\ ~shutdown
    /\ \E t \in Tasks : task[t] # "none"
    /\ shutdown' = TRUE
    /\ UNCHANGED <<graphVars, fsVars, sinkVars, pc, res, refVars, histVars, ctlVars,
                   syncVars, hashVars>>

NextSync ==
    \/ CallStartSyncDaemon(1)
    \/ SpawnSyncTask(1)
    \/ \E t \in Tasks : Tick(t) \/ SyncPeer(t) \/ FinishSync(t)
    \/ RequestShutdown

SpecSync == Init /\ [][NextSync]_vars

\* The tokio runtime keeps polling a spawned task: the interval fires, and a
\* sync that was started comes to its end (Ok or Err).
SyncFairness ==
    \A t \in Tasks :
        WF_vars(Tick(t)) /\ WF_vars(SyncPeer(t)) /\ WF_vars(FinishSync(t))

SpecSyncLive == SpecSync /\ SyncFairness


\* ------------------------------------------------------- the usage of main
\* The calls of example.rs, in its order, each made when the one before has
\* returned Ok (main applies ? to every call): initialize, start_sync_daemon,
\* add_ssh_user, then grant_host_access for the identity add_ssh_user
\* returned. The sync task runs beside them.
UsageInitialize ==
    /\ nOps = 0
    /\ pc[1] = "idle"
    /\ Begin(1, [NoOp EXCEPT !.name = "initialize"], "init_define")

UsageStartSyncDaemon ==
    /\ nOps = 1
    /\ pc[1] = "done" /\ res[1] = "Ok"
    /\ Begin(1, [NoOp EXCEPT !.name = "start_sync_daemon"], "spawn")

UsageAddUser ==
    /\ nOps = 2
    /\ pc[1] = "done" /\ res[1] = "Ok"
    /\ \E k \in KeyBundles, a \in BOOLEAN :
          Begin(1, [NoOp EXCEPT !.name = "add_ssh_user", !.keys = k, !.admin = a],
                "add_member")

UsageGrantHostAccess ==
    /\ nOps = 3
    /\ pc[1] = "done" /\ res[1] = "Ok"
    /\ \E u \in ret[1], h \in Hosts :
          Begin(1, [NoOp EXCEPT !.name = "grant_host_access", !.uid = u, !.host = h],
                "gr_define")

UsageStep ==
    \/ InitDefineLabel(1) \/ InitKeysDir(1) \/ InitHostsDir(1)
    \/ SpawnSyncTask(1)
    \/ AddMember(1) \/ AddAssignRole(1) \/ AddAssignLabel(1)
    \/ GrantDefineLabel(1) \/ GrantAssignLabel(1)
    \/ ReadHostList(1) \/ NextHostLine(1)
    \/ RenderHostKeys(1) \/ WriteHostKeys(1) \/ DeployHostKeys(1)

NextUsage ==
    \/ UsageInitialize \/ UsageStartSyncDaemon \/ UsageAddUser \/ UsageGrantHostAccess
    \/ UsageStep
    \/ \E t \in Tasks : Tick(t) \/ SyncPeer(t) \/ FinishSync(t)

SpecUsage == Init /\ [][NextUsage]_vars

\* ----------------------------------------------------------- hash_hostname
\* hash_hostname run on its own, one loop iteration at a time, on hostnames
\* over a small byte alphabet: '.', 'z' and 0xC3 (the lead byte of a two-byte
\* UTF-8 character).
HostBytes == {46, 122, 195}
Hostnames == UNION {[1..n -> HostBytes] : n \in 0..MaxNameLen}

InitHash ==
    /\ InitManager
    /\ hpc = "loop"
    /\ hname \in Hostnames
    /\ hrest = hname
    /\ hacc = <<0, 0>>
    /\ hlabel = 0

\* for byte in hostname.bytes() { hash = hash.wrapping_mul(31).wrapping_add(byte as u32); }
HashLoop ==
    /\ hpc = "loop"
    /\ hrest # <<>>
    /\ hacc' = WrappingMulAdd(hacc, Head(hrest))
    /\ hrest' = Tail(hrest)
    /\ UNCHANGED <<graphVars, fsVars, sinkVars, pc, res, refVars, histVars, ctlVars,
                   syncVars, shutdown, hpc, hname, hlabel>>

\* 2000 + (hash % 1000)
HashReturn ==
    /\ hpc = "loop"
    /\ hrest = <<>>
    /\ hlabel' = HostLabelBase + ModRange(hacc)
    /\ hpc' = "done"
    /\ UNCHANGED <<graphVars, fsVars, sinkVars, pc, res, refVars, histVars, ctlVars,
                   syncVars, shutdown, hname, hrest, hacc>>

NextHash == HashLoop \/ HashReturn

SpecHash == InitHash /\ [][NextHash]_vars

\* ------------------------------------------------------------ vocabulary
\* The identities a key file lists.
Listed(h) == {keyFile[h].data[i] : i \in 1..Len(keyFile[h].data)}

Returned(c, name) == pc[c] = "done" /\ op[c].name = name
ReturnedOk(c, name) == Returned(c, name) /\ res[c] = "Ok"
\* update_host_keys has written cur's file and is about to deploy it.
Refreshing(c) == pc[c] = "uhk_deploy"
\* The call has issued its label assignment / revocation and gone on.
PastLabelAction(c) == pc[c] \in {"uhk_render", "uhk_write", "uhk_deploy", "done"}
                      /\ cur[c] # NoHost

\* ---------------------------------------------------------------- claims

\* C1: the key file update_host_keys produces for a host lists exactly the
\* team members that hold the host's label open (and so nobody that was
\* never granted the host).
C1_KeyFileListsAuthorized ==
    \A c \in Callers : Refreshing(c) => Listed(cur[c]) = Authorized(cur[c])

\* C2: once a host is bound to its label by a successful grant, a grant on
\* another host with the same label issues no label assignment and fails.
C2_CollisionRejected ==
    \A c \in Callers :
        (/\ op[c].name = "grant_host_access"
         /\ pc[c] # "idle"
         /\ boundHost[hash_hostname(op[c].host)] \notin {NoHost, op[c].host})
        => ~PastLabelAction(c)

\* C3: when remove_ssh_user(U) has returned Ok, every host U was granted has
\* been refreshed by the call and its key file does not list U.
C3_RemoveRefreshesGrantedHosts ==
    \A c \in Callers :
        ReturnedOk(c, "remove_ssh_user") =>
            \A h \in Hosts :
                <<op[c].uid, h>> \in granted =>
                    h \in opDeployed[c] /\ op[c].uid \notin Listed(h)

\* C4: after remove_ssh_user(U) has returned Ok, a grant_host_access(U, h) is
\* rejected and U is in no host's authorized set.
C4_RemovedUserRejected ==
    /\ \A c \in Callers :
          op[c].name = "grant_host_access" /\ op[c].uid \in removed
          => ~ReturnedOk(c, "grant_host_access")
    /\ \A u \in removed, h \in Hosts : u \notin Authorized(h)

\* C5: a grant_host_access(u, h) that follows a successful identical call
\* leaves the same key file and the two calls hand h to the sink at most once.
C5_SecondGrantDeploysNothing ==
    \A c \in Callers :
        (/\ ReturnedOk(c, "grant_host_access")
         /\ prev.op = op[c]
         /\ prev.res = "Ok")
        => /\ keyFile[op[c].host] = prev.file
           /\ Cardinality(prev.deployed) + Cardinality(opDeployed[c]) <= 1

\* A successful revoke_host_access(u, h) directly after a successful
\* grant_host_access(u, h).
RevokeAfterGrant(c) ==
    /\ ReturnedOk(c, "revoke_host_access")
    /\ prev.op = [op[c] EXCEPT !.name = "grant_host_access"]
    /\ prev.res = "Ok"

\* C6 as stated: from every prior state, grant then revoke restores the
\* host's authorized set to what it was before the grant.
C6_RevokeRestoresPreGrant ==
    \A c \in Callers : RevokeAfterGrant(c) => Authorized(op[c].host) = snap

\* C6 as amended: grant then revoke restores the host's authorized set when
\* u was not in it before the grant.
C6_RevokeRestoresUnlessHeld ==
    \A c \in Callers :
        RevokeAfterGrant(c) /\ op[c].uid \notin snap
        => Authorized(op[c].host) = snap

\* A member that did not hold the host's label was granted and then revoked.
C6_Witness ==
    \E c \in Callers :
        /\ RevokeAfterGrant(c)
        /\ op[c].uid \notin snap
        /\ op[c].uid \in members

\* C7: a principal whose remove_ssh_user failed at remove_member (label and
\* roles revoked, still a member) gets no new host grant.
C7_HalfRemovedNotGrantable ==
    \A c \in Callers :
        (/\ op[c].name = "grant_host_access"
         /\ op[c].uid \in halfRemoved
         /\ op[c].uid \in members)
        => ~ReturnedOk(c, "grant_host_access")

\* C9: when update_authorized_keys is over, with or without a failure, no
\* host of the list it read is left unvisited.
C9_FailureDoesNotAbort ==
    \A c \in Callers :
        pc[c] = "done" => \A i \in 1..Len(lines[c]) : TrimIsEmpty(lines[c][i])


\* C8: refreshes of one host are serialized, so that no deployment replaces
\* content rendered from the current graph state by content rendered from an
\* older one.
SinkFresh(h) == deployed[h].exists /\ deployedBasis[h] = Authorized(h)
C8_NoStaleOverFresh ==
    [][\A h \in Hosts :
          (SinkFresh(h) /\ Authorized(h)' = Authorized(h)) => SinkFresh(h)']_vars

\* C10: a tick whose sync collected no effect (as the second of two ticks
\* with no graph mutation in between does) writes no key file and hands
\* nothing to the sink.
C10_EmptyTickNoSideEffects ==
    [][\A t \in Tasks :
          (task[t] = "effects" /\ effects[t] = <<>> /\ task'[t] # "effects")
          => UNCHANGED <<keyFile, fileBasis, deployed, deployedBasis>>]_vars

\* A task has finished two ticks in a row: the first brought effects in, the
\* second none.
C10_Witness ==
    \E t \in Tasks :
        /\ task[t] = "tick"
        /\ Len(lastTick[t]) >= 2
        /\ lastTick[t][Len(lastTick[t]) - 1] = "effects"
        /\ lastTick[t][Len(lastTick[t])] = "empty"


\* The hosts named in hosts.txt.
KnownHosts ==
    {hostsFile.data[i] : i \in {j \in 1..Len(hostsFile.data) :
                                    ~TrimIsEmpty(hostsFile.data[j])}}

\* The hosts a batch of effects touches: the hosts of the labels it assigns,
\* and every known host when it holds a role revocation (no label context).
AffectedHosts(batch) ==
    LET idx == 1..Len(batch)
        byLabel == {h \in Hosts : \E i \in idx : /\ batch[i].kind = "label_assigned"
                                                 /\ batch[i].label = hash_hostname(h)}
        unscoped == \E i \in idx : batch[i].kind = "role_revoked"
    IN  byLabel \cup (IF unscoped THEN KnownHosts ELSE {})

\* C11: a tick whose sync collected effects refreshes, before it ends, every
\* host the effects touch (every known host when the scope is unknown): the
\* sink then holds content rendered from the merged graph.
C11_EffectsRefreshAffectedHosts ==
    [][\A t \in Tasks :
          (task[t] = "effects" /\ effects[t] # <<>> /\ task'[t] # "effects")
          => \A h \in AffectedHosts(effects[t]) : SinkFresh(h)']_vars

LastTickFailed(t) == lastTick[t] # <<>> /\ lastTick[t][Len(lastTick[t])] = "err"

\* C12: a failed sync attempt changes nothing but the log and leaves the task
\* awaiting its next tick, and that tick is then taken (as long as the tick
\* budget of the behaviour lasts) and starts a new sync attempt.
C12_ErrorDoesNotStopLoop ==
    /\ [][\A t \in Tasks :
             (task[t] = "sync" /\ lastTick'[t] = Append(lastTick[t], "err"))
             => (task'[t] = "tick" /\ UNCHANGED <<graphVars, fsVars, sinkVars, effects>>)]_vars
    /\ \A t \in Tasks :
          (LastTickFailed(t) /\ ticks < MaxTicks)
          ~> (task[t] = "sync" \/ ticks = MaxTicks)

\* A task's sync failed in one tick and brought effects in in the next.
C12_Witness ==
    \E t \in Tasks :
        /\ Len(lastTick[t]) >= 2
        /\ lastTick[t][Len(lastTick[t]) - 1] = "err"
        /\ lastTick[t][Len(lastTick[t])] = "effects"

\* The SSH roles a principal holds, and whether it holds the transport label.
RolesOf(u) == {r \in SshRoles : <<u, r>> \in roles}
HoldsTransport(u) == <<u, SSH_LABEL>> \in labelOpen

\* C13: remove_ssh_user revokes the transport label, then the user role, then
\* the admin role, then removes the member, and refreshes keys only after
\* that; a principal that was a member when the call began is never seen
\* without its membership while it still holds the label or an SSH role.
C13_RemoveOrder ==
    \A c \in Callers :
        (op[c].name = "remove_ssh_user" /\ pc[c] # "idle") =>
            LET u == op[c].uid IN
            /\ pc[c] \in {"rm_user_role", "rm_admin_role", "rm_member"}
                  => ~HoldsTransport(u)
            /\ pc[c] \in {"rm_admin_role", "rm_member"} => <<u, SSH_USER_ROLE>> \notin roles
            /\ pc[c] = "rm_member" => RolesOf(u) = {}
            /\ pc[c] \in {"uak_read", "uak_loop", "uhk_render", "uhk_write", "uhk_deploy"}
                  => u \notin members
            /\ (held.member /\ u \notin members) => (~HoldsTransport(u) /\ RolesOf(u) = {})

\* remove_ssh_user returned Ok for a member that held the transport label and
\* an SSH role when the call began.
C13_Witness ==
    \E c \in Callers :
        /\ ReturnedOk(c, "remove_ssh_user")
        /\ held.member /\ held.label /\ held.roles # {}
        /\ op[c].uid \notin members

\* C14: initialize on a team whose transport label is already defined does
\* not fail at the definition of the label: it goes on to the directories.
C14_RedefinitionIsSuccess ==
    [][\A c \in Callers :
          (/\ op[c].name = "initialize"
           /\ pc[c] = "init_define"
           /\ SSH_LABEL \in definedLabels)
          => pc'[c] # "done"]_vars

\* C15: when add_ssh_user(keys, is_admin) has returned Ok, the member minted
\* for keys is in the team, holds exactly the role is_admin selects and the
\* transport label, every known host was refreshed, and the call returned
\* that member's identity.
C15_AddUserPostcondition ==
    \A c \in Callers :
        ReturnedOk(c, "add_ssh_user") =>
            LET m == GraphIdOf(op[c].keys) IN
            /\ m \in members
            /\ RolesOf(m) = {RoleFor(op[c].admin)}
            /\ HoldsTransport(m)
            /\ KnownHosts \subseteq opDeployed[c]
            /\ ret[c] = {m}

\* C16: two successful add_ssh_user calls in a row with distinct key bundles
\* return distinct identities.
C16_DistinctIdentities ==
    \A c \in Callers :
        (/\ ReturnedOk(c, "add_ssh_user")
         /\ prev.op.name = "add_ssh_user"
         /\ prev.res = "Ok"
         /\ prev.op.keys # op[c].keys)
        => ret[c] # prev.ret

\* C17: in the key file written for a host, a member with an SSH role and
\* without the host's label is not listed, and a member with the host's
\* label is listed whatever its role.
C17_LabelAloneGates ==
    \A c \in Callers :
        Refreshing(c) =>
            \A u \in members :
                LET labelled == <<u, hash_hostname(cur[c])>> \in labelOpen IN
                /\ (RolesOf(u) # {} /\ ~labelled) => u \notin Listed(cur[c])
                /\ labelled => u \in Listed(cur[c])

\* C18: update_host_keys hands a host to the sink only when the key file it
\* has just written differs from the content last deployed to that host.
C18_DeployOnlyOnChange ==
    [][\A c \in Callers :
          (pc[c] = "uhk_deploy" /\ pc'[c] # "uhk_deploy")
          => keyFile[cur[c]] # deployed[cur[c]]]_vars

\* C19: grant_host_access returns Ok only when the label is defined and
\* assigned and the host's key file was written and handed to the sink by
\* the call; a call in which a step failed has returned Err.
C19_GrantFailureIsReported ==
    \A c \in Callers :
        Returned(c, "grant_host_access") =>
            LET h == op[c].host IN
            /\ res[c] \in {"Ok", "Err"}
            /\ res[c] = "Ok" <=> h \in opDeployed[c]
            /\ res[c] = "Ok" =>
                  /\ hash_hostname(h) \in definedLabels
                  /\ <<op[c].uid, hash_hostname(h)>> \in labelOpen
                  /\ keyFile[h].exists
                  /\ deployed[h] = keyFile[h]

\* A grant_host_access whose label assignment went through and whose refresh
\* then failed has returned Err.
C19_Witness ==
    \E c \in Callers :
        /\ Returned(c, "grant_host_access")
        /\ res[c] = "Err"
        /\ <<op[c].uid, hash_hostname(op[c].host)>> \in labelOpen
        /\ cur[c] = op[c].host

\* C20: a revoke_host_access(u, h) for a u that was not authorized for h when
\* the call began hands nothing to the sink.
C20_RevokeNotHeldIsNoOp ==
    \A c \in Callers :
        (ReturnedOk(c, "revoke_host_access") /\ ~held.access) => opDeployed[c] = {}

\* The hosts bound to their label by a successful grant_host_access.
BoundHosts == {boundHost[l] : l \in HostLabels} \ {NoHost}

\* C21: a host that a successful grant_host_access bound is a known host
\* from then on, and every full refresh that ends Ok has refreshed it.
C21_BindingPersists ==
    /\ BoundHosts \subseteq KnownHosts
    /\ \A c \in Callers :
          (ReturnedOk(c, "add_ssh_user") \/ ReturnedOk(c, "remove_ssh_user"))
          => BoundHosts \subseteq opDeployed[c]

\* C22: start_sync_daemon returns Ok, and it returns before the task it
\* spawned has taken a tick; no step of a sync task, failed syncs included,
\* touches the position or the result of any caller.
C22_DaemonErrorsStayInside ==
    /\ [](\A c \in Callers : Returned(c, "start_sync_daemon") => res[c] = "Ok")
    /\ [][\A c \in Callers :
             (pc[c] = "spawn" /\ pc'[c] = "done")
             => \A t \in Tasks : task[t] = "none" => lastTick'[t] = <<>>]_vars
    /\ [][(\E t \in Tasks : task[t] # "none" /\ task'[t] # task[t])
           => UNCHANGED <<pc, res>>]_vars

\* start_sync_daemon has returned Ok and a sync of the task then failed.
C22_Witness ==
    /\ ReturnedOk(1, "start_sync_daemon")
    /\ \E t \in Tasks : LastTickFailed(t)

\* C23: once shutdown is requested no task starts a new tick.
C23_NoTickAfterShutdown ==
    [][shutdown => \A t \in Tasks : ~(task[t] = "tick" /\ task'[t] = "sync")]_vars

\* A u32 held as two halves, reduced modulo p (p below 2^15).
ValueMod(h, p) == (((h[1] % p) * (Half % p)) + (h[2] % p)) % p
\* 2^32 modulo p.
TwoTo32Mod(p) == ((Half % p) * (Half % p)) % p
\* Four primes whose product exceeds 62 * 2^32: two integers less than that
\* apart and congruent modulo all four are equal.
Primes == {1009, 1013, 1019, 1021}

\* after = (before * 31 + byte) mod 2^32: some multiple k * 2^32, k below
\* 31, taken off before * 31 + byte gives after, and after is a u32.
IsWrappedStep(before, byte, after) ==
    /\ after[1] \in 0..(Half - 1) /\ after[2] \in 0..(Half - 1)
    /\ \E k \in 0..30 :
          \A p \in Primes :
              ValueMod(after, p) =
                  ((31 * ValueMod(before, p)) + byte + (k * (p - TwoTo32Mod(p)))) % p

\* H over the integers, for hostnames short enough that no wrap occurs.
RECURSIVE PlainHash(_, _)
PlainHash(h, bytes) ==
    IF bytes = <<>> THEN h ELSE PlainHash((h * 31) + Head(bytes), Tail(bytes))

\* C24: hash_hostname starts from 0, takes H to (H * 31 + byte) mod 2^32 for
\* each byte in order and returns 2000 + (H mod 1000): a value in
\* 2000..2999 that depends on the bytes only, 2000 for the empty hostname,
\* and the label grant_host_access and revoke_host_access derive.
C24_HashHostname ==
    /\ [][(hpc = "loop" /\ hrest' # hrest)
           => IsWrappedStep(hacc, Head(hrest), hacc')]_vars
    /\ [](hpc = "done" =>
            /\ hlabel \in 2000..2999
            /\ (hlabel - 2000) % 8 = hacc[2] % 8
            /\ (hlabel - 2000) % 125 = ValueMod(hacc, 125)
            /\ hlabel = hash_hostname(hname)
            /\ hname = <<>> => hlabel = 2000
            /\ Len(hname) <= 5 => hlabel = 2000 + (PlainHash(0, hname) % 1000))

\* hash_hostname has returned for a hostname long enough for H to wrap.
C24_Witness ==
    /\ hpc = "done"
    /\ Len(hname) >= 7
    /\ \A i \in 1..Len(hname) : hname[i] = 195

\* add_ssh_user is past the extraction of the identity.
PastExtraction(c) ==
    /\ op[c].name = "add_ssh_user"
    /\ pc[c] \in {"add_role", "add_label", "uak_read", "uak_loop", "uhk_render",
                   "uhk_write", "uhk_deploy"}

\* C25: an add_ssh_user whose add_member yields no identity ends there with
\* Err: it returns no identity, assigns no role and no label, and refreshes
\* no host.
C25_NoIdentityNoEffects ==
    /\ [][\A c \in Callers :
             (/\ op[c].name = "add_ssh_user"
              /\ pc[c] = "add_member" /\ pc'[c] # "add_member"
              /\ ret'[c] = {})
             => (/\ pc'[c] = "done" /\ res'[c] = "Err"
                 /\ UNCHANGED <<roles, labelOpen, keyFile, deployed>>)]_vars
    /\ [](\A c \in Callers : PastExtraction(c) => ret[c] # {})
    /\ [](\A c \in Callers :
            (Returned(c, "add_ssh_user") /\ ret[c] = {})
            => (res[c] = "Err" /\ opDeployed[c] = {}))

\* The one call made was an add_ssh_user that added the member of key bundle
\* 2 and ended with Err and without an identity.
C25_Witness ==
    \E c \in Callers :
        /\ Returned(c, "add_ssh_user") /\ res[c] = "Err"
        /\ nOps = 1
        /\ op[c].keys = 2 /\ GraphIdOf(2) \in members
        /\ ret[c] = {}

\* C26: an add_ssh_user that fails at assign_role or at the assign_label of
\* the transport label returns Err at that step: the member stays added,
\* the graph is as the steps before left it, and no host is refreshed.
C26_NoRollback ==
    [][\A c \in Callers :
          (pc[c] \in {"add_role", "add_label"} /\ pc'[c] = "done")
          => (/\ res'[c] = "Err"
              /\ GraphIdOf(op[c].keys) \in members'
              /\ UNCHANGED <<members, roles, labelOpen, definedLabels, keyFile, deployed>>
              /\ opDeployed'[c] = {}
              /\ lines'[c] = <<>>)]_vars

\* The one call made was an add_ssh_user that added a member, assigned the
\* role and failed at the assignment of the transport label.
C26_Witness ==
    \E c \in Callers :
        /\ Returned(c, "add_ssh_user") /\ res[c] = "Err"
        /\ nOps = 1
        /\ op[c].keys = 2 /\ GraphIdOf(2) \in members
        /\ ret[c] # {}
        /\ \A u \in ret[c] : <<u, RoleFor(op[c].admin)>> \in roles /\ ~HoldsTransport(u)

\* C27: in remove_ssh_user the revocation of an SSH role the principal does
\* not hold does not end the call: it goes on towards remove_member.
C27_RevokeUnheldRoleIsNoOp ==
    [][\A c \in Callers :
          (\/ pc[c] = "rm_user_role" /\ <<op[c].uid, SSH_USER_ROLE>> \notin roles
           \/ pc[c] = "rm_admin_role" /\ <<op[c].uid, SSH_ADMIN_ROLE>> \notin roles)
          => pc'[c] # "done"]_vars

IsSortedById(ids) == \A i, j \in 1..Len(ids) : i < j => ids[i] < ids[j]

C29_OnlyNamedHostTouched ==
    [][\A c \in Callers :
          (/\ op[c].name \in {"grant_host_access", "revoke_host_access"}
           /\ pc[c] \notin {"idle", "done"})
          => /\ \A h \in Hosts \ {op[c].host} :
                   keyFile'[h] = keyFile[h] /\ deployed'[h] = deployed[h]
             /\ opDeployed'[c] \subseteq {op[c].host}]_vars

\* A grant_host_access returned Ok after a call that had deployed another
\* host.
C29_Witness ==
    \E c \in Callers :
        /\ ReturnedOk(c, "grant_host_access")
        /\ opDeployed[c] = {op[c].host}
        /\ prev.deployed # {} /\ op[c].host \notin prev.deployed
        /\ \E h \in Hosts \ {op[c].host} : deployed[h].exists

\* Sync attempts made by the tasks 1..n: the attempts of finished ticks and
\* the attempt of a tick whose effects are being looked at.
RECURSIVE Attempts(_)
Attempts(n) ==
    IF n = 0 THEN 0
    ELSE Attempts(n - 1) + Len(lastTick[n]) + (IF task[n] = "effects" THEN 1 ELSE 0)
\* Tasks that have taken a tick and not yet made its sync attempt.
Pending == Cardinality({t \in Tasks : task[t] = "sync"})

\* C30: every tick is followed by one sync attempt and no more: the attempts
\* made never exceed the ticks taken.
C30_OneAttemptPerTick ==
    /\ Attempts(MaxLoops) <= ticks
    /\ Attempts(MaxLoops) + Pending = ticks

\* A task failed its sync in two ticks in a row.
C30_Witness ==
    \E t \in Tasks : lastTick[t] = <<"err", "err">> /\ ticks = 2

\* C31: the steps of grant_host_access(u, h1) add nobody to the authorized
\* set of a host other than h1 (no label stands for two hostnames).
C31_GrantStaysOnItsHost ==
    [][\A c \in Callers :
          (op[c].name = "grant_host_access" /\ pc[c] \notin {"idle", "done"})
          => \A h2 \in Hosts \ {op[c].host} : Authorized(h2)' \subseteq Authorized(h2)]_vars

\* The sync tasks that are running.
Running == {t \in Tasks : task[t] # "none"}

\* C33: however often start_sync_daemon is called, at most one sync task
\* runs, so that no two syncs are in progress together.
C33_OneSyncTask ==
    /\ Cardinality(Running) <= 1
    /\ Cardinality({t \in Tasks : task[t] \in {"sync", "effects"}}) <= 1

\* C32: in the usage of main, begun on empty key and host directories, the
\* add_ssh_user that follows a successful initialize is not ended by the
\* reading of the host list.
C32_UsageReadsHostList ==
    [][(/\ op[1].name = "add_ssh_user"
        /\ pc[1] = "uak_read"
        /\ hostsDir /\ ~hostsFile.exists)
       => pc'[1] # "done"]_vars

=============================================================================
